---- MODULE Spec2Model ----
(***************************************************************************)
(* Lazy-tensor IR core (torch/csrc/lazy/core/ir.cpp) and the nested        *)
(* flash-attention backward entry point                                    *)
(* (ATen/native/nested/cuda/NestedTensorTransformerFunctionsBackward.cpp). *)
(*                                                                         *)
(* Nodes live on a heap keyed by an allocation number (their address).     *)
(* A Node is owned by NodePtr handles: the ones client code holds (held)   *)
(* and the ones stored in Node::node_list / Node::last_node_list.  A Node  *)
(* with no owner is destroyed and leaves the heap.                         *)
(***************************************************************************)
EXTENDS Integers, Sequences, FiniteSets, TLC

VARIABLES
  nodes,            \* heap: allocation number -> the Node's fields
  allocated,        \* number of Nodes constructed so far
  held,             \* Nodes client code holds a NodePtr to
  node_list,        \* Node::node_list
  last_node_list,   \* Node::last_node_list
  FLAGS_ltc_enable_dynamic_shapes,
  env_LTC_ENABLE_DYNAMIC_SHAPES,   \* getenv(...) != nullptr
  enabled_init,     \* the function-local static of enableDynamicShape is initialised
  enabled,          \* its value
  call,             \* the last operation and what it returned
  session,          \* history: Nodes constructed since the last ClearNodeList
  envAtFirstCall,   \* history: the environment at the first enableDynamicShape()
  pushLog,          \* history: the pushed handles and the flushes each has seen
  sdpa              \* the last _scaled_dot_product_flash_attention_backward_nested call

vars == <<nodes, allocated, held, node_list, last_node_list,
          FLAGS_ltc_enable_dynamic_shapes, env_LTC_ENABLE_DYNAMIC_SHAPES,
          enabled_init, enabled, call, session, envAtFirstCall, pushLog, sdpa>>

----------------------------------------------------------------------------
(* Bounds and the inputs client code supplies *)

MaxNodes == 2
MaxPushes == 2

HashValues == {0, 1}
HashMod == 2 ^ 3
\* the Node subclasses client code builds: an operator and its output arity
AddKind == [op |-> "aten::add", num_outputs |-> 1]
SplitKind == [op |-> "aten::split", num_outputs |-> 2]
NodeKinds == {AddKind, SplitKind}
\* the hash callbacks std::function<hash_t(bool)> client code passes, each by
\* its two values: one that ignores its argument, two that do not
FlatHashFn == [include_sizes \in BOOLEAN |-> 0]
SizedHashFn == [include_sizes \in BOOLEAN |-> IF include_sizes THEN 1 ELSE 0]
SizedHashFn2 == [include_sizes \in BOOLEAN |-> IF include_sizes THEN 0 ELSE 1]
HashFns == {FlatHashFn, SizedHashFn, SizedHashFn2}

Range(s) == {s[i] : i \in DOMAIN s}

----------------------------------------------------------------------------
(* hash.h: HashCombine and Hash on a reduced width *)

RECURSIVE BitXor(_, _)
BitXor(a, b) ==
  IF a = 0 THEN b
  ELSE IF b = 0 THEN a
  ELSE ((a + b) % 2) + 2 * BitXor(a \div 2, b \div 2)

HashCombine(a, b) ==
  BitXor(a % HashMod, (b * 5 + 21 + a * 64 + (a \div 4)) % HashMod)

Hash(index) == (index * 3 + 1) % HashMod

----------------------------------------------------------------------------
(* Node accessors *)

Node_hash(n) == nodes[n].node_hash
Node_hash_with_sizes(n) == nodes[n].dag_hash_with_sizes
Node_hash_without_sizes(n) == nodes[n].dag_hash_without_sizes

(* Output / Value *)

Output(n, i) == [node |-> n, index |-> i]
Value(n, i) == [node |-> n, index |-> i]

\* Output::operator==(const Value&): prints, then returns false; the comparison
\* after the first return is never reached.
Output_eq(lhs, rhs) == FALSE

Output_hash(o) == HashCombine(Node_hash(o.node), Hash(o.index))

Value_hash_sized(v) == HashCombine(Node_hash_with_sizes(v.node), Hash(v.index))
Value_hash(v) == HashCombine(Node_hash(v.node), Hash(v.index))

Value_hash_with_sizes(v) == HashCombine(Node_hash_with_sizes(v.node), Hash(v.index))
Value_hash_without_sizes(v) == HashCombine(Node_hash_without_sizes(v.node), Hash(v.index))

----------------------------------------------------------------------------
(* Node::enableDynamicShape: the static is initialised from the environment *)
(* on the first call only; the flag is read on every call.                  *)

EnableDynamicShape_rereads(init, en, env, flag) ==
  [ret |-> env \/ flag, init |-> TRUE, enabled |-> env]
EnableDynamicShape(init, en, env, flag) ==
  LET e == IF init THEN en ELSE env
  IN  [ret |-> e \/ flag, init |-> TRUE, enabled |-> e]

(* Trace buffer *)

NextNodeListIndex(nl) == Len(nl)

PushBack(nl, n) == Append(nl, n)

\* last_node_list.clear(); std::swap(last_node_list, node_list);
ClearSwap_noclear(lnl, nl) == [last |-> nl, current |-> lnl]
ClearSwap_keeps(lnl, nl) == [last |-> lnl \o nl, current |-> <<>>]
ClearSwap(lnl, nl) ==
  LET cleared == <<>>
  IN  [last |-> nl, current |-> cleared]

(* Node constructors: the fields each form initialises *)

NodeExplicit(op, num_outputs, node_hash, dag_hash_fn, nl) ==
  [op |-> op,
   num_outputs |-> num_outputs,
   node_hash |-> node_hash,
   dag_hash_without_sizes |-> dag_hash_fn[FALSE],
   dag_hash_with_sizes |-> dag_hash_fn[TRUE],
   node_list_index |-> NextNodeListIndex(nl)]

DerivedNodeHash_same(node_hash_fn, dyn) == node_hash_fn[dyn]
DerivedNodeHash(node_hash_fn, dyn) == node_hash_fn[~dyn]

NodeDerived(op, num_outputs, node_hash_fn, dyn, nl) ==
  [op |-> op,
   num_outputs |-> num_outputs,
   node_hash |-> DerivedNodeHash(node_hash_fn, dyn),
   dag_hash_without_sizes |-> node_hash_fn[FALSE],
   dag_hash_with_sizes |-> node_hash_fn[TRUE],
   node_list_index |-> NextNodeListIndex(nl)]

(* Ownership: a Node is destroyed when its last NodePtr goes away *)

Owners(h, nl, lnl) == h \cup Range(nl) \cup Range(lnl)

Reap(f, h, nl, lnl) == [n \in (DOMAIN f) \cap Owners(h, nl, lnl) |-> f[n]]

\* what enableDynamicShape() would return in this state
DynamicNow ==
  (IF enabled_init THEN enabled ELSE env_LTC_ENABLE_DYNAMIC_SHAPES)
    \/ FLAGS_ltc_enable_dynamic_shapes

\* history of the pushed handles after one more flush: a handle that has seen
\* two flushes is forgotten
RECURSIVE Aged(_)
Aged(log) ==
  IF log = <<>> THEN <<>>
  ELSE IF Head(log).flushes = 0
       THEN <<[Head(log) EXCEPT !.flushes = 1]>> \o Aged(Tail(log))
       ELSE Aged(Tail(log))

----------------------------------------------------------------------------
(* Initial state: process start *)

SdpaIdle == [fn |-> "none"]

(* _scaled_dot_product_flash_attention_backward_nested.  A tensor is known by
   whether it is defined.  The three callees are opaque: each returns or
   throws, and `fault` names the one that throws. *)

Undefined == "undefined"
Defined == "defined"
Tensors == {Undefined, Defined}
SdpaFaults == {"none", "sdpa_nested_preprocessing_backward",
               "_flash_attention_backward", "sdpa_nested_postprocessing_backward"}
SdpaArgs == [grad_out_ : Tensors, query : Tensors, key : Tensors, value : Tensors,
             out : Tensors, logsumexp : Tensors, is_causal : BOOLEAN]
SdpaPipeline == <<"sdpa_nested_preprocessing_backward",
                  "_flash_attention_backward",
                  "sdpa_nested_postprocessing_backward">>

\* the callees entered before (and including) the one that throws
Entered(fault) ==
  IF fault = "none" THEN SdpaPipeline
  ELSE LET k == CHOOSE i \in DOMAIN SdpaPipeline : SdpaPipeline[i] = fault
       IN  SubSeq(SdpaPipeline, 1, k)

SdpaBackwardNested_unguarded(args, fault) ==
  [calls |-> Entered(fault),
   ret |-> IF fault = "none" THEN <<Defined, Defined, Defined>> ELSE "exception"]
SdpaBackwardNested(args, fault) ==
  IF args.grad_out_ = Undefined
  THEN [calls |-> <<>>, ret |-> <<Undefined, Undefined, Undefined>>]
  ELSE [calls |-> Entered(fault),
        ret |-> IF fault = "none" THEN <<Defined, Defined, Defined>> ELSE "exception"]

Init ==
  /\ nodes = <<>>
  /\ allocated = 0
  /\ held = {}
  /\ node_list = <<>>
  /\ last_node_list = <<>>
  /\ FLAGS_ltc_enable_dynamic_shapes = FALSE
  /\ env_LTC_ENABLE_DYNAMIC_SHAPES = FALSE
  /\ enabled_init = FALSE
  /\ enabled = FALSE
  /\ call = [fn |-> "start"]
  /\ session = <<>>
  /\ envAtFirstCall = "none"
  /\ pushLog = <<>>
  /\ sdpa = SdpaIdle

----------------------------------------------------------------------------
(* Operations of ir.cpp *)

NodeCtorExplicit(op, num_outputs, node_hash, dag_hash_fn) ==
  /\ allocated < MaxNodes
  /\ LET id == allocated + 1
     IN  /\ nodes' = (id :> NodeExplicit(op, num_outputs, node_hash, dag_hash_fn, node_list)) @@ nodes
         /\ held' = held \cup {id}
         /\ session' = Append(session, id)
         /\ call' = [fn |-> "Node::Node", form |-> "explicit", node |-> id,
                     node_hash |-> node_hash]
  /\ allocated' = allocated + 1
  /\ UNCHANGED <<node_list, last_node_list, FLAGS_ltc_enable_dynamic_shapes,
                 env_LTC_ENABLE_DYNAMIC_SHAPES, enabled_init, enabled,
                 envAtFirstCall, pushLog, sdpa>>

NodeCtorDerived(op, num_outputs, node_hash_fn) ==
  /\ allocated < MaxNodes
  /\ LET id == allocated + 1
         r == EnableDynamicShape(enabled_init, enabled,
                                 env_LTC_ENABLE_DYNAMIC_SHAPES,
                                 FLAGS_ltc_enable_dynamic_shapes)
     IN  /\ nodes' = (id :> NodeDerived(op, num_outputs, node_hash_fn, r.ret, node_list)) @@ nodes
         /\ held' = held \cup {id}
         /\ session' = Append(session, id)
         /\ enabled_init' = r.init
         /\ enabled' = r.enabled
         /\ call' = [fn |-> "Node::Node", form |-> "derived", node |-> id]
  /\ envAtFirstCall' = IF envAtFirstCall = "none"
                       THEN (IF env_LTC_ENABLE_DYNAMIC_SHAPES THEN "present" ELSE "absent")
                       ELSE envAtFirstCall
  /\ allocated' = allocated + 1
  /\ UNCHANGED <<node_list, last_node_list, FLAGS_ltc_enable_dynamic_shapes,
                 env_LTC_ENABLE_DYNAMIC_SHAPES, pushLog, sdpa>>

PushIntoNodeList(n) ==
  /\ n \in held
  /\ Len(node_list) < MaxPushes
  /\ node_list' = PushBack(node_list, n)
  /\ pushLog' = Append(pushLog, [node |-> n, flushes |-> 0])
  /\ call' = [fn |-> "PushIntoNodeList"]
  /\ UNCHANGED <<nodes, allocated, held, last_node_list,
                 FLAGS_ltc_enable_dynamic_shapes, env_LTC_ENABLE_DYNAMIC_SHAPES,
                 enabled_init, enabled, session, envAtFirstCall, sdpa>>

ClearNodeList ==
  /\ LET r == ClearSwap(last_node_list, node_list)
     IN  /\ node_list' = r.current
         /\ last_node_list' = r.last
         /\ nodes' = Reap(nodes, held, r.current, r.last)
  /\ session' = <<>>
  /\ pushLog' = Aged(pushLog)
  /\ call' = [fn |-> "ClearNodeList"]
  /\ UNCHANGED <<allocated, held, FLAGS_ltc_enable_dynamic_shapes,
                 env_LTC_ENABLE_DYNAMIC_SHAPES, enabled_init, enabled,
                 envAtFirstCall, sdpa>>

\* client code drops its NodePtr; ~Node runs if that was the last owner
ReleaseNodePtr(n) ==
  /\ n \in held
  /\ held' = held \ {n}
  /\ nodes' = Reap(nodes, held', node_list, last_node_list)
  /\ call' = [fn |-> "NodePtr::reset"]
  /\ UNCHANGED <<allocated, node_list, last_node_list,
                 FLAGS_ltc_enable_dynamic_shapes, env_LTC_ENABLE_DYNAMIC_SHAPES,
                 enabled_init, enabled, session, envAtFirstCall, pushLog, sdpa>>

SetFlag_rebinds(b) ==
  /\ FLAGS_ltc_enable_dynamic_shapes # b
  /\ FLAGS_ltc_enable_dynamic_shapes' = b
  /\ nodes' = [n \in DOMAIN nodes |->
                 [nodes[n] EXCEPT !.node_hash =
                    IF b THEN nodes[n].dag_hash_without_sizes
                         ELSE nodes[n].dag_hash_with_sizes]]
  /\ call' = [fn |-> "FLAGS_ltc_enable_dynamic_shapes"]
  /\ UNCHANGED <<allocated, held, node_list, last_node_list,
                 env_LTC_ENABLE_DYNAMIC_SHAPES, enabled_init, enabled,
                 session, envAtFirstCall, pushLog, sdpa>>
SetFlag(b) ==
  /\ FLAGS_ltc_enable_dynamic_shapes # b
  /\ FLAGS_ltc_enable_dynamic_shapes' = b
  /\ call' = [fn |-> "FLAGS_ltc_enable_dynamic_shapes"]
  /\ UNCHANGED <<nodes, allocated, held, node_list, last_node_list,
                 env_LTC_ENABLE_DYNAMIC_SHAPES, enabled_init, enabled,
                 session, envAtFirstCall, pushLog, sdpa>>

\* the process environment changes (setenv / unsetenv)
SetEnv(b) ==
  /\ env_LTC_ENABLE_DYNAMIC_SHAPES # b
  /\ env_LTC_ENABLE_DYNAMIC_SHAPES' = b
  /\ call' = [fn |-> "setenv"]
  /\ UNCHANGED <<nodes, allocated, held, node_list, last_node_list,
                 FLAGS_ltc_enable_dynamic_shapes, enabled_init, enabled,
                 session, envAtFirstCall, pushLog, sdpa>>

CallEnableDynamicShape ==
  /\ LET r == EnableDynamicShape(enabled_init, enabled,
                                 env_LTC_ENABLE_DYNAMIC_SHAPES,
                                 FLAGS_ltc_enable_dynamic_shapes)
     IN  /\ enabled_init' = r.init
         /\ enabled' = r.enabled
         /\ call' = [fn |-> "enableDynamicShape", ret |-> r.ret]
  /\ envAtFirstCall' = IF envAtFirstCall = "none"
                       THEN (IF env_LTC_ENABLE_DYNAMIC_SHAPES THEN "present" ELSE "absent")
                       ELSE envAtFirstCall
  /\ UNCHANGED <<nodes, allocated, held, node_list, last_node_list,
                 FLAGS_ltc_enable_dynamic_shapes, env_LTC_ENABLE_DYNAMIC_SHAPES,
                 session, pushLog, sdpa>>

\* Output{&a, i} == Value{b, j}
CallOutputEq(a, i, b, j) ==
  /\ a \in DOMAIN nodes /\ b \in DOMAIN nodes
  /\ i < nodes[a].num_outputs /\ j < nodes[b].num_outputs
  /\ call' = [fn |-> "Output::operator==", lhs |-> Output(a, i), rhs |-> Value(b, j),
              ret |-> Output_eq(Output(a, i), Value(b, j))]
  /\ UNCHANGED <<nodes, allocated, held, node_list, last_node_list,
                 FLAGS_ltc_enable_dynamic_shapes, env_LTC_ENABLE_DYNAMIC_SHAPES,
                 enabled_init, enabled, session, envAtFirstCall, pushLog, sdpa>>

\* Output{&n, i}.hash() and Value{n, i}.hash()
CallEdgeHash(n, i) ==
  /\ n \in DOMAIN nodes
  /\ i < nodes[n].num_outputs
  /\ call' = [fn |-> "hash", node |-> n, index |-> i,
              output_hash |-> Output_hash(Output(n, i)),
              value_hash |-> Value_hash(Value(n, i))]
  /\ UNCHANGED <<nodes, allocated, held, node_list, last_node_list,
                 FLAGS_ltc_enable_dynamic_shapes, env_LTC_ENABLE_DYNAMIC_SHAPES,
                 enabled_init, enabled, session, envAtFirstCall, pushLog, sdpa>>

NodeIds == 1..MaxNodes

\* client code constructs a Node, through either constructor
NodeCtor(kinds, hashes, fns) ==
  \/ \E k \in kinds, f \in fns :
       NodeCtorDerived(k.op, k.num_outputs, f)
  \/ \E k \in kinds, h \in hashes, f \in fns :
       NodeCtorExplicit(k.op, k.num_outputs, h, f)

(* Every operation of ir.cpp *)

Next ==
  \/ NodeCtor({AddKind}, {0}, {SizedHashFn})
  \/ \E n \in NodeIds : PushIntoNodeList(n)
  \/ ClearNodeList
  \/ \E n \in NodeIds : ReleaseNodePtr(n)
  \/ \E b \in BOOLEAN : SetFlag(b)
  \/ \E b \in BOOLEAN : SetEnv(b)
  \/ CallEnableDynamicShape
  \/ \E a \in NodeIds, b \in NodeIds, i \in 0..1, j \in 0..1 : CallOutputEq(a, i, b, j)
  \/ \E n \in NodeIds, i \in 0..1 : CallEdgeHash(n, i)

Spec == Init /\ [][Next]_vars

(* The trace buffer: Nodes are built, pushed, flushed and released *)

TraceNext ==
  \/ NodeCtor({AddKind}, {0}, {FlatHashFn})
  \/ \E n \in NodeIds : PushIntoNodeList(n)
  \/ ClearNodeList
  \/ \E n \in NodeIds : ReleaseNodePtr(n)

TraceSpec == Init /\ [][TraceNext]_vars

FrameNext ==
  \/ NodeCtor({AddKind}, {0}, {SizedHashFn})
  \/ \E n \in NodeIds : PushIntoNodeList(n)
  \/ ClearNodeList
  \/ \E b \in BOOLEAN : SetFlag(b)

FrameSpec == Init /\ [][FrameNext]_vars

(* Dynamic shapes: Nodes are built while the flag and the environment change *)

ShapeNext ==
  \/ NodeCtor({AddKind}, HashValues, HashFns)
  \/ \E b \in BOOLEAN : SetFlag(b)
  \/ \E b \in BOOLEAN : SetEnv(b)
  \/ CallEnableDynamicShape

ShapeSpec == Init /\ [][ShapeNext]_vars

(* Edges: Nodes are built and their Output / Value edges compared and hashed *)

EdgeNext ==
  \/ NodeCtor(NodeKinds, HashValues, {FlatHashFn, SizedHashFn})
  \/ \E b \in BOOLEAN : SetFlag(b)
  \/ \E a \in NodeIds, b \in NodeIds, i \in 0..1, j \in 0..1 : CallOutputEq(a, i, b, j)
  \/ \E n \in NodeIds, i \in 0..1 : CallEdgeHash(n, i)

EdgeSpec == Init /\ [][EdgeNext]_vars

(* The nested flash-attention backward entry point *)

CallSdpaBackwardNested(args, fault) ==
  /\ LET r == SdpaBackwardNested(args, fault)
     IN  sdpa' = [fn |-> "_scaled_dot_product_flash_attention_backward_nested",
                  args |-> args, calls |-> r.calls, ret |-> r.ret]
  /\ UNCHANGED <<nodes, allocated, held, node_list, last_node_list,
                 FLAGS_ltc_enable_dynamic_shapes, env_LTC_ENABLE_DYNAMIC_SHAPES,
                 enabled_init, enabled, call, session, envAtFirstCall, pushLog>>

SdpaNext == \E args \in SdpaArgs, fault \in SdpaFaults : CallSdpaBackwardNested(args, fault)

SdpaSpec == Init /\ [][SdpaNext]_vars

----------------------------------------------------------------------------
(* Properties *)

Live == DOMAIN nodes

Count(seq, n) == Cardinality({i \in DOMAIN seq : seq[i] = n})

Logged(n, k) ==
  Cardinality({i \in DOMAIN pushLog : pushLog[i].node = n /\ pushLog[i].flushes = k})

\* C1: the Nodes constructed since the last flush (or process start), in
\* construction order, have trace_index 0, 1, ..., N-1.
C1_TraceIndexSequence ==
  \A i \in DOMAIN session :
    session[i] \in Live => nodes[session[i]].node_list_index = i - 1

\* C2: node_list holds exactly the Nodes constructed since the last flush, in
\* construction order, and the Node at position i of it has trace_index i.
C2_CurrentHoldsSession ==
  /\ node_list = session
  /\ \A i \in DOMAIN node_list : nodes[node_list[i]].node_list_index = i - 1

\* C3: ClearNodeList takes (current = C, last = L) to (current = empty, last = C),
\* C's order kept and L dropped; so flushing an empty current leaves both empty,
\* and a flush right after a flush leaves last empty.
C3_Flush ==
  [][call'.fn = "ClearNodeList" =>
       /\ last_node_list' = node_list
       /\ node_list' = <<>>
       /\ (node_list = <<>> => last_node_list' = <<>>)
       /\ (call.fn = "ClearNodeList" => last_node_list' = <<>>)]_vars

C3_Witness ==
  /\ call.fn = "ClearNodeList"
  /\ Len(last_node_list) = 2
  /\ last_node_list[1] > last_node_list[2]
  /\ node_list = <<>>

\* C4, as stated: a Node constructed while enableDynamicShape() is false has
\* node_hash = dag_hash_without_sizes, and one constructed while it is true has
\* node_hash = dag_hash_with_sizes.
C4_Original ==
  call.fn = "Node::Node" =>
    LET n == nodes[call.node]
    IN  IF DynamicNow THEN n.node_hash = n.dag_hash_with_sizes
                      ELSE n.node_hash = n.dag_hash_without_sizes

\* C4, amended: a Node constructed by the derived-hash constructor while
\* enableDynamicShape() is false has node_hash = dag_hash_with_sizes, and while it
\* is true node_hash = dag_hash_without_sizes; the explicit-hash constructor
\* stores the node_hash it is given, whatever the mode.
C4_Amended ==
  call.fn = "Node::Node" =>
    LET n == nodes[call.node]
    IN  IF call.form = "derived"
        THEN n.node_hash = (IF DynamicNow THEN n.dag_hash_without_sizes
                                          ELSE n.dag_hash_with_sizes)
        ELSE n.node_hash = call.node_hash

C4_Witness ==
  /\ call.fn = "Node::Node"
  /\ call.form = "derived"
  /\ ~DynamicNow
  /\ nodes[call.node].dag_hash_with_sizes # nodes[call.node].dag_hash_without_sizes
  /\ \E m \in Live :
       /\ m # call.node
       /\ nodes[m].dag_hash_with_sizes # nodes[m].dag_hash_without_sizes
       /\ nodes[m].node_hash = nodes[m].dag_hash_without_sizes

\* C5: Output::operator==(Value) returns true exactly when the two Nodes' hashes
\* are equal and the two indices are equal.
C5_OutputEqByHash ==
  call.fn = "Output::operator==" =>
    call.ret = (/\ Node_hash(call.lhs.node) = Node_hash(call.rhs.node)
                /\ call.lhs.index = call.rhs.index)

\* C6: called with an undefined grad_out_, the backward entry point returns three
\* undefined tensors and enters none of its three callees, whatever the other
\* arguments are.
C6_UndefinedGradShortCircuit ==
  (sdpa.fn # "none" /\ sdpa.args.grad_out_ = Undefined) =>
    /\ sdpa.ret = <<Undefined, Undefined, Undefined>>
    /\ sdpa.calls = <<>>

C6_Witness ==
  /\ sdpa.fn # "none"
  /\ sdpa.args.grad_out_ = Undefined
  /\ sdpa.args.query = Defined /\ sdpa.args.key = Defined /\ sdpa.args.value = Defined
  /\ sdpa.ret = <<Undefined, Undefined, Undefined>>

\* C7: for every Node n and index i, Output{n, i}.hash() = Value{n, i}.hash(),
\* both being HashCombine(n's node_hash, Hash(i)).
C7_EdgeHashAgree ==
  call.fn = "hash" =>
    /\ call.output_hash = call.value_hash
    /\ call.value_hash = HashCombine(nodes[call.node].node_hash, Hash(call.index))

C7_Witness ==
  /\ call.fn = "hash"
  /\ call.index = 1
  /\ nodes[call.node].node_hash # nodes[call.node].dag_hash_with_sizes
  /\ call.output_hash = call.value_hash

\* C8: every call of enableDynamicShape() returns (the environment toggle was
\* present at the first call) OR (the flag's current value).
C8_EnvMemoizedFlagLive ==
  call.fn = "enableDynamicShape" =>
    call.ret = ((envAtFirstCall = "present") \/ FLAGS_ltc_enable_dynamic_shapes)

C8_Witness ==
  /\ call.fn = "enableDynamicShape"
  /\ envAtFirstCall = "present"
  /\ ~env_LTC_ENABLE_DYNAMIC_SHAPES
  /\ ~FLAGS_ltc_enable_dynamic_shapes
  /\ call.ret = TRUE

\* C9: no operation changes a field of a Node that exists before and after it.
C9_NodeFieldsFrozen ==
  [][\A n \in DOMAIN nodes : n \in DOMAIN nodes' => nodes'[n] = nodes[n]]_vars

C9_Witness ==
  /\ call.fn = "FLAGS_ltc_enable_dynamic_shapes"
  /\ FLAGS_ltc_enable_dynamic_shapes
  /\ \E n \in Live :
       /\ n \in Range(last_node_list)
       /\ nodes[n].node_hash = nodes[n].dag_hash_with_sizes
       /\ nodes[n].node_hash # nodes[n].dag_hash_without_sizes

\* C10: a pushed handle is in node_list until the first flush after the push, in
\* last_node_list from then until the second, and in neither afterwards; the
\* Node it owns is alive while the buffer holds it, and a Node nobody else owns
\* is gone once the buffer has let go of it.
C10_HeldAcrossOneFlush ==
  \A n \in NodeIds :
    /\ Count(node_list, n) = Logged(n, 0)
    /\ Count(last_node_list, n) = Logged(n, 1)
    /\ (Logged(n, 0) + Logged(n, 1) > 0 => n \in Live)
    /\ (Logged(n, 0) + Logged(n, 1) = 0 /\ n \notin held => n \notin Live)

C10_Witness ==
  /\ call.fn = "ClearNodeList"
  /\ \E n \in NodeIds :
       /\ n \notin held
       /\ n \in Live
       /\ n \in Range(last_node_list)
       /\ n \notin Range(node_list)
  /\ \E m \in NodeIds : m <= allocated /\ m \notin Live

====
